---------------------------- MODULE Spec2Model ----------------------------
(***************************************************************************)
(* Beat scheduling of the rhythm runner (src/src/core/audio.js).           *)
(*                                                                         *)
(* The AudioManager analyses a track into a beat map and, on start() and   *)
(* resume(), arms one setTimeout per beat; stop() and pause() only clear   *)
(* isPlaying.  The model follows the event loop of the page: every async   *)
(* method runs to its next await in one step, a pending await is a         *)
(* position (pcStart, pcResume), and timers, promise settlements and API   *)
(* calls interleave as tasks.                                              *)
(*                                                                         *)
(* Time is counted in ticks of 500 ms (= beatParams.minBeatInterval), for  *)
(* beat times, audio positions and timer delays alike.  Timers are kept    *)
(* with their remaining delay; a timer whose delay has run out runs before *)
(* the clock advances again.                                               *)
(*                                                                         *)
(* Four specifications share the state.   Spec is the scheduler, with a    *)
(* run of the analysis as one step.  SpecA follows analyzeFullTrack()      *)
(* frame by frame, SpecT with setAudioTrack() as a further call.  SpecG is *)
(* the scheduler as the Game drives it, with the LevelGenerator and        *)
(* Game.handleBeat as the beat callback.                                   *)
(***************************************************************************)
EXTENDS Integers, Sequences, FiniteSets

\* ------------------------------------------------------------ bounds
\* length of the track, in ticks
Duration == 3
\* number of calls of the interface (start, stop, pause, resume, retry,
\* setAudioTrack, reset) in one behaviour
MaxCalls == 3
\* number of analysis frames that read the same currentTime as the frame
\* before them
MaxRepeats == 2

\* -------------------------------------------------------- beatParams
\* minBeatInterval, 500 ms, in ticks
MinBeatInterval == 1
EnergyThreshold == 240
HistorySize == 30
\* dynamicRange 1.3 and beatDecay 0.98, in thousandths
DynamicRange == 1300
BeatDecay == 980
\* Intensities are counted in units of 1/10200, in which totalEnergy / 255
\* and energyChange / 100 and their mean are whole numbers.
One == 2 * 5100
\* minBeatIntensity, 0.70
MinBeatIntensity == (70 * One) \div 100

\* ------------------------------------- LevelGenerator and Game settings
\* positions are in scene units; game.speed is 10 units a second
Speed == 5
MinObstacleDistance == 5
SpawnDistance == 35
DespawnDistance == 0 - 20
\* The level generator's plan keeps its times in tenths of a second, five
\* to the tick, so that its 0.2 s and 2.5 s are whole numbers.
TenthsPerTick == 5
\* minBeatInterval of preplanObstacles, 0.2 s
PlanInterval == 2
\* the 2.5 s look-ahead window of update()
LookAhead == 25

Min(a, b) == IF a <= b THEN a ELSE b
Max(a, b) == IF a >= b THEN a ELSE b

VARIABLES
    \* AudioManager fields
    isInitialized, isAnalyzed, isPlaying, beatMap, onBeatDetected,
    audioElement, audioContext, debugDiv,
    \* the page's pending setTimeout callbacks armed by start()/resume()
    timers,
    \* the await each in-flight start()/resume() is suspended at
    pcStart, pcResume,
    \* the analysis run of analyzeFullTrack(): its closure variables, the
    \* clock of its audio and, as observation, the samples it has read
    run,
    \* observation: the last run completed before this one
    prevRun,
    \* LevelGenerator fields and the player's position (player.mesh.position.x)
    plannedObstacles, obstacleQueue, lastObstaclePosition, playerX,
    \* Game.isRunning, whether a frame of Game.gameLoop is requested, and of
    \* the MenuSystem the menu shown (main, death, none) and isLoading
    isRunning, gameLoop, currentMenu, isLoading,
    \* observation: the beat map preplanObstacles was last called with, and
    \* the method of the level generator that ran last, or how the last
    \* call of startGame or of Game.start() went
    planInput, lastOp,
    \* a second detector, run on the same frames with beatParams of its own
    alt,
    \* observation: call history, callback counts, the last callback
    nCalls, nArms, phase, lastCall, ended, fired, firedR, sessMax, lastCb,
    lastStart, lastResume, elapsed

progVars == <<isInitialized, isAnalyzed, isPlaying, beatMap, onBeatDetected,
              audioElement, audioContext, debugDiv, timers, pcStart,
              pcResume, run>>
obsVars == <<prevRun, nCalls, nArms, phase, lastCall, ended, fired, firedR, sessMax,
             lastCb, lastStart, lastResume, elapsed>>
levelVars == <<plannedObstacles, obstacleQueue, lastObstaclePosition, playerX>>
gameVars == <<isRunning, gameLoop, currentMenu, isLoading, planInput, lastOp, alt>>
vars == <<progVars, levelVars, gameVars, obsVars>>

\* The whole state as one record, so that a method's continuation after an
\* await is the composition of its steps.
Cur ==
    [isInitialized |-> isInitialized, isAnalyzed |-> isAnalyzed,
     isPlaying |-> isPlaying, beatMap |-> beatMap,
     onBeatDetected |-> onBeatDetected, audioElement |-> audioElement,
     audioContext |-> audioContext, debugDiv |-> debugDiv, timers |-> timers,
     pcStart |-> pcStart, pcResume |-> pcResume,
     run |-> run, prevRun |-> prevRun,
     plannedObstacles |-> plannedObstacles, obstacleQueue |-> obstacleQueue,
     lastObstaclePosition |-> lastObstaclePosition, playerX |-> playerX,
     isRunning |-> isRunning, gameLoop |-> gameLoop,
     currentMenu |-> currentMenu, isLoading |-> isLoading,
     planInput |-> planInput, lastOp |-> lastOp, alt |-> alt,
     nCalls |-> nCalls, nArms |-> nArms, phase |-> phase,
     lastCall |-> lastCall, ended |-> ended, fired |-> fired,
     firedR |-> firedR, sessMax |-> sessMax, lastCb |-> lastCb,
     lastStart |-> lastStart, lastResume |-> lastResume, elapsed |-> elapsed]

Becomes(w) ==
    /\ isInitialized' = w.isInitialized
    /\ isAnalyzed' = w.isAnalyzed
    /\ isPlaying' = w.isPlaying
    /\ beatMap' = w.beatMap
    /\ onBeatDetected' = w.onBeatDetected
    /\ audioElement' = w.audioElement
    /\ audioContext' = w.audioContext
    /\ debugDiv' = w.debugDiv
    /\ timers' = w.timers
    /\ pcStart' = w.pcStart
    /\ pcResume' = w.pcResume
    /\ run' = w.run
    /\ prevRun' = w.prevRun
    /\ plannedObstacles' = w.plannedObstacles
    /\ obstacleQueue' = w.obstacleQueue
    /\ lastObstaclePosition' = w.lastObstaclePosition
    /\ playerX' = w.playerX
    /\ isRunning' = w.isRunning
    /\ gameLoop' = w.gameLoop
    /\ currentMenu' = w.currentMenu
    /\ isLoading' = w.isLoading
    /\ planInput' = w.planInput
    /\ lastOp' = w.lastOp
    /\ alt' = w.alt
    /\ nCalls' = w.nCalls
    /\ nArms' = w.nArms
    /\ phase' = w.phase
    /\ lastCall' = w.lastCall
    /\ ended' = w.ended
    /\ fired' = w.fired
    /\ firedR' = w.firedR
    /\ sessMax' = w.sessMax
    /\ lastCb' = w.lastCb
    /\ lastStart' = w.lastStart
    /\ lastResume' = w.lastResume
    /\ elapsed' = w.elapsed

\* ------------------------------------------------------ beat detection
\* The analysis samples the spectrum once per animation frame; here one
\* frame is taken per tick of the analysis audio, at 0 .. Duration - 1, and
\* a frame's totalEnergy is quiet or loud.
Energies == {50, 300}
FrameTimes == 0 .. (Duration - 1)
SampleRuns == [FrameTimes -> Energies]
BeatIds == 1 .. (Duration - 1)

RECURSIVE SumSeq(_)
SumSeq(s) == IF s = <<>> THEN 0 ELSE s[1] + SumSeq(Tail(s))

\* a run whose lastBeatTime starts one minBeatInterval before the track
NewRunEarly ==
    [beatMap |-> <<>>, beatHistory |-> <<>>, dynamicThreshold |-> 0,
     lastBeatTime |-> 0 - MinBeatInterval, lastEnergy |-> 0, crashed |-> FALSE]

\* The state of one analysis run: the closure variables of analyzeFullTrack
\* and the fields it writes; crashed says that a frame callback threw.
NewRun ==
    [beatMap |-> <<>>, beatHistory |-> <<>>, dynamicThreshold |-> 0,
     lastBeatTime |-> 0, lastEnergy |-> 0, crashed |-> FALSE]

\* intensity from the energy alone
EnergyIntensity(totalEnergy, energyChange) == Min(totalEnergy * 20, 5100)

\* intensity without Math.min and Math.max
UnclampedIntensity(totalEnergy, energyChange) ==
    totalEnergy * 20 + energyChange * 51

\* intensity of a candidate beat, lines 142-147
BeatIntensity(totalEnergy, energyChange) ==
    LET energyIntensity == Min(totalEnergy * 20, 5100)
        changeIntensity == Min(Max(energyChange, 0) * 51, 5100)
    IN Max(Min(energyIntensity + changeIntensity, One), MinBeatIntensity)

\* timeSinceLastBeat >= (this.beatParams.minBeatInterval / 1000)
NoTimeGate(timeSinceLastBeat) == TRUE
TimeGate(timeSinceLastBeat) == timeSinceLastBeat >= MinBeatInterval

\* beatHistory.push(totalEnergy) without the shift()
PushUnbounded(history, totalEnergy, size) == Append(history, totalEnergy)

\* beatHistory.push(totalEnergy), and shift() when the length exceeds
\* historySize
PushHistory(history, totalEnergy, size) ==
    LET pushed == Append(history, totalEnergy) IN
    IF Len(pushed) > size THEN Tail(pushed) ELSE pushed

\* a candidate beat being a frame whose energy is above energyThreshold
CandidateByEnergyOnly(threshold, totalEnergy, energyChange, timeSinceLastBeat) ==
    totalEnergy > EnergyThreshold /\ TimeGate(timeSinceLastBeat)

\* a candidate beat being a frame whose energy is above the dynamic
\* threshold, which is counted in thousandths
CandidateAboveDynamic(threshold, totalEnergy, energyChange, timeSinceLastBeat) ==
    1000 * totalEnergy > threshold /\ TimeGate(timeSinceLastBeat)

\* the condition of a candidate beat, lines 138-139; the dynamic threshold
\* of the frame is not in it
Candidate(threshold, totalEnergy, energyChange, timeSinceLastBeat) ==
    /\ \/ totalEnergy > EnergyThreshold
       \/ energyChange * 2 > EnergyThreshold
    /\ TimeGate(timeSinceLastBeat)

\* One call of analyze() while the analysis audio plays.  The beat counter
\* of the debug UI is written through this.debugDiv, which exists only on
\* localhost: elsewhere that line throws, after the beat was pushed, and the
\* frame callback is never requested again.
\* The run is made with the beatParams p, of which dynamicRange, beatDecay
\* and historySize are those that the dynamic threshold is computed from.
AnalyzeFrameWith(p, r, currentTime, totalEnergy, debug) ==
    LET energyChange == totalEnergy - r.lastEnergy
        history == PushHistory(r.beatHistory, totalEnergy, p.historySize)
        threshold == IF Len(history) >= Min(10, p.historySize)
                     THEN (((SumSeq(history) * p.dynamicRange) \div Len(history))
                              * p.beatDecay) \div 1000
                     ELSE r.dynamicThreshold
        timeSinceLastBeat == currentTime - r.lastBeatTime
        candidate == Candidate(threshold, totalEnergy, energyChange, timeSinceLastBeat)
        intensity == BeatIntensity(totalEnergy, energyChange)
        beat == candidate /\ intensity >= MinBeatIntensity
    IN [beatMap |-> IF beat
                    THEN Append(r.beatMap, [time |-> currentTime, intensity |-> intensity])
                    ELSE r.beatMap,
        beatHistory |-> history,
        dynamicThreshold |-> threshold,
        lastBeatTime |-> IF beat THEN currentTime ELSE r.lastBeatTime,
        lastEnergy |-> totalEnergy,
        crashed |-> beat /\ ~debug]

\* this.beatParams as the constructor sets them
BeatParams ==
    [dynamicRange |-> DynamicRange, beatDecay |-> BeatDecay, historySize |-> HistorySize]

AnalyzeFrame(r, currentTime, totalEnergy, debug) ==
    AnalyzeFrameWith(BeatParams, r, currentTime, totalEnergy, debug)

\* The second detector: its beatParams, its state, and the beat map it
\* stores at the end of the run.
NoAlt == [params |-> BeatParams, st |-> NewRun, result |-> <<>>]

\* The frames of a run at times 0 .. upto - 1, each requested by the one
\* before it.
RECURSIVE RunFrames(_, _, _)
RunFrames(samples, upto, debug) ==
    IF upto = 0 THEN NewRun
    ELSE LET r == RunFrames(samples, upto - 1, debug) IN
         IF r.crashed THEN r
         ELSE AnalyzeFrame(r, upto - 1, samples[upto - 1], debug)

\* An analysis run.  status: none, loading (analyzeFullTrack() called, the
\* analysis audio not yet playing), running (frames are requested), done
\* (the completion branch ran), failed (the promise was rejected), dead (a
\* frame threw and none is requested).  st holds the detector state, time
\* the last currentTime read from the analysis audio.  Observation: the
\* samples read, the repeated readings so far, whether the track was changed
\* during the run, whether a frame threw, the beat map stored at the end.
NoRun ==
    [status |-> "none", st |-> NewRun, time |-> 0, repeats |-> 0,
     samples |-> <<>>, stale |-> FALSE, threw |-> FALSE, result |-> <<>>]

\* beatMap.filter(...) keeping the first beat only.
KeepFirstOnly(arr, i) == i = 1

\* beatMap.filter(...) of analyzeFullTrack: keep the first beat, and a later
\* one when it is minBeatInterval after its predecessor in the sorted array
\* or more than 1.2 times as intense.
KeepBeat(arr, i) ==
    \/ i = 1
    \/ arr[i].time - arr[i-1].time >= MinBeatInterval
    \/ arr[i].intensity * 10 > arr[i-1].intensity * 12

RECURSIVE FilterBeats(_, _)
FilterBeats(arr, i) ==
    IF i > Len(arr) THEN <<>>
    ELSE (IF KeepBeat(arr, i) THEN <<arr[i]>> ELSE <<>>) \o FilterBeats(arr, i + 1)

\* beatMap.sort((a, b) => a.time - b.time): a stable insertion by time.
RECURSIVE InsertByTime(_, _)
InsertByTime(s, b) ==
    IF s = <<>> THEN <<b>>
    ELSE IF s[Len(s)].time <= b.time THEN Append(s, b)
    ELSE Append(InsertByTime(SubSeq(s, 1, Len(s) - 1), b), s[Len(s)])

RECURSIVE SortByTime(_)
SortByTime(s) ==
    IF s = <<>> THEN <<>>
    ELSE InsertByTime(SortByTime(SubSeq(s, 1, Len(s) - 1)), s[Len(s)])

\* ------------------------------------------------- the <audio> element
NoElem == [exists |-> FALSE, paused |-> TRUE, currentTime |-> 0]
NewElem == [exists |-> TRUE, paused |-> TRUE, currentTime |-> 0]

\* audioElement.play(): when the page may play, playback runs from the
\* current position (from 0 after the end) and the promise is pending;
\* otherwise the promise is rejected and the element stays paused.
ElemPlay(e, allowed) ==
    IF ~allowed THEN e
    ELSE [e EXCEPT !.paused = FALSE,
                   !.currentTime = IF @ >= Duration THEN 0 ELSE @]

PlayPc(allowed) == IF allowed THEN "play" ELSE "playRejected"

\* audioElement.pause() also rejects the pending play() promises.
AbortPlay(pc) == IF pc = "play" THEN "playRejected" ELSE pc

ElemPause(w) ==
    IF ~w.audioElement.exists THEN w
    ELSE [w EXCEPT !.audioElement.paused = TRUE,
                   !.pcStart = AbortPlay(@),
                   !.pcResume = AbortPlay(@)]

\* ------------------------------------------------------------ timers
\* setTimeout delays, in ticks.
NoDelay(beat) == 0
FullDelay(beat, currentTime) == beat.time

StartDelay(beat) == beat.time
ResumeDelay(beat, currentTime) == beat.time - currentTime

\* A pending timer: the beat its callback closes over, the remaining delay,
\* and, as observation, the beat's index in beatMap, who armed the timer
\* (by, op: the serial of the arming), the audio position it was armed at,
\* its age in ticks and whether pause() or stop() was called since.
Timer(bm, i, delay, by, op, pos) ==
    [beat |-> bm[i], rem |-> delay, idx |-> i, by |-> by, op |-> op,
     pos |-> pos, age |-> 0, stale |-> FALSE]

StartTimers(bm, op) ==
    {Timer(bm, i, StartDelay(bm[i]), "start", op, 0) : i \in DOMAIN bm}

ResumeBeats(bm, currentTime) == {i \in DOMAIN bm : bm[i].time > currentTime}

ResumeTimers(bm, currentTime, op) ==
    {Timer(bm, i, ResumeDelay(bm[i], currentTime), "resume", op, currentTime) :
        i \in ResumeBeats(bm, currentTime)}

\* The arguments a timer's callback passes to onBeatDetected.
CallbackArgs(by, beat) ==
    IF by = "start" THEN <<beat.intensity, beat.time>> ELSE <<beat.intensity>>

NoBeat == [time |-> 0, intensity |-> 0]
NoCb == [beat |-> NoBeat, idx |-> 0, args |-> <<>>, by |-> "none", op |-> 0,
         age |-> 0, pos |-> 0, stale |-> FALSE, halted |-> FALSE, prevMax |-> 0]
NoStart == [op |-> 0, outcome |-> "none", armed |-> FALSE,
            playbackFailed |-> FALSE, unanalyzed |-> FALSE, restart |-> FALSE]
NoResume == [op |-> 0, outcome |-> "none", armed |-> FALSE, pos |-> 0]

\* lastCb describes the callback call made in the step just taken.
Step(w) == Becomes([w EXCEPT !.lastCb = NoCb])

ZeroCount == [i \in BeatIds |-> 0]
\* counts saturate at 2: "more than once"
Bump(f, i) == [f EXCEPT ![i] = Min(@ + 1, 2)]

\* --------------------------------------------------- observation of calls
\* phase names the calls made so far while they are starts of which the
\* last is the first to reach the timers (S), then, once it has returned
\* true, a pause (SP), then a resume (SPR).
NextPhase(w, call) ==
    CASE call = "start" /\ w.phase \in {"none", "S"} /\ ~w.lastStart.armed -> "S"
      [] call = "pause" /\ w.phase = "S" /\ w.lastStart.outcome = "true" -> "SP"
      [] call = "resume" /\ w.phase = "SP" -> "SPR"
      [] OTHER -> "other"

Called(w, call) ==
    [w EXCEPT !.nCalls = @ + 1,
              !.phase = NextPhase(w, call),
              !.lastCall = call,
              !.elapsed = 0]

\* A session begins with a call of start(); ended says that stop() has
\* ended the session before.
NewSession(w) ==
    [w EXCEPT !.lastStart = [NoStart EXCEPT !.outcome = "pending",
                                            !.unanalyzed = ~w.isAnalyzed,
                                            !.restart = w.ended],
              !.ended = FALSE,
              !.fired = ZeroCount,
              !.sessMax = 0]

NewResume(w) == [w EXCEPT !.lastResume = [NoResume EXCEPT !.outcome = "pending"]]

Halted(w) == w.lastCall \in {"pause", "stop"}

\* ------------------------------------------------------ AudioManager.start
\* start(), from `this.audioElement.currentTime = 0` to `await
\* this.audioElement.play()`.
StartArm(w, allowed) ==
    [w EXCEPT !.audioElement = ElemPlay([@ EXCEPT !.currentTime = 0], allowed),
              !.isPlaying = TRUE,
              !.timers = @ \cup StartTimers(w.beatMap, w.nArms + 1),
              !.pcStart = PlayPc(allowed),
              !.nArms = @ + 1,
              !.lastStart.op = w.nArms + 1,
              !.lastStart.armed = TRUE]

\* start(), from `this.onBeatDetected = beatCallback` on.
StartBody(w, allowed) ==
    LET w1 == [w EXCEPT !.onBeatDetected = "handleBeat"] IN
    IF w1.audioContext = "suspended"
    THEN [w1 EXCEPT !.pcStart = "ctx"]
    ELSE StartArm(w1, allowed)

\* lastBeatTime, beatHistory, dynamicThreshold and lastEnergy as
\* analyzeFullTrack() sets them for a new run.
KeepDetector(w) == w.run.st
ResetDetector(w) == NewRun

\* analyzeFullTrack() up to the analysis audio's load(): the beat map is
\* emptied, the detector state is reset and the run's frames are awaited.
AnalyzeBegin(w) ==
    [w EXCEPT !.beatMap = <<>>,
              !.pcStart = "analyze",
              !.prevRun = IF w.run.status = "done" THEN w.run ELSE @,
              !.run = [NoRun EXCEPT !.status = "loading",
                                    !.st = [ResetDetector(w) EXCEPT !.beatMap = <<>>],
                                    !.repeats = w.run.repeats],
              !.alt.st = NewRun]

\* start() without its `if (!this.isAnalyzed)`.
StartUnanalyzed(w, allowed) == StartBody(w, allowed)

\* start() running the analysis whether or not isAnalyzed is set.
StartReanalyzes(w, allowed) == AnalyzeBegin(w)

\* start(), from `if (!this.isAnalyzed)` on.
StartAnalyzed(w, allowed) ==
    IF ~w.isAnalyzed THEN AnalyzeBegin(w) ELSE StartBody(w, allowed)

\* initialize() and initializeWithFile() up to the await of canplaythrough:
\* a new AudioContext (which the browser creates running or suspended) and
\* a new audio element.
InitializeBegin(w, ctx) ==
    [w EXCEPT !.audioContext = ctx, !.audioElement = NewElem, !.pcStart = "init"]

\* start(), from its first line to its first await.
StartEnter(w, ctx, allowed) ==
    IF ~w.isInitialized THEN InitializeBegin(w, ctx) ELSE StartAnalyzed(w, allowed)

StartReturns(w, outcome) ==
    [w EXCEPT !.pcStart = "idle", !.lastStart.outcome = outcome]

\* ------------------------------------------- AudioManager.stop and pause
\* No clearTimeout: the timers stay armed; they are marked for observation.
Cancelled(ts) == {[t EXCEPT !.stale = TRUE] : t \in ts}

\* pause() without its `this.isPlaying = false`
PauseKeepsPlaying(w) == [ElemPause(w) EXCEPT !.timers = Cancelled(@)]

Pause(w) ==
    LET w1 == ElemPause([w EXCEPT !.isPlaying = FALSE]) IN
    [w1 EXCEPT !.timers = Cancelled(@)]

Stop(w) ==
    LET w1 == ElemPause([w EXCEPT !.isPlaying = FALSE])
        w2 == IF w1.audioElement.exists
              THEN [w1 EXCEPT !.audioElement.currentTime = 0] ELSE w1
    IN [w2 EXCEPT !.timers = Cancelled(@), !.ended = w.lastStart.armed]

\* ----------------------------------------------------- AudioManager.resume
\* resume(), from `const currentTime = this.audioElement.currentTime` to
\* `await this.audioElement.play()`.
ResumeArm(w, allowed) ==
    LET currentTime == w.audioElement.currentTime IN
    [w EXCEPT !.timers = @ \cup ResumeTimers(w.beatMap, currentTime, w.nArms + 1),
              !.audioElement = ElemPlay(@, allowed),
              !.pcResume = PlayPc(allowed),
              !.nArms = @ + 1,
              !.lastResume.op = w.nArms + 1,
              !.lastResume.armed = TRUE,
              !.lastResume.pos = currentTime,
              !.firedR = ZeroCount]

\* resume() without its `if (!this.audioElement || !this.isAnalyzed) return`
ResumeEnterUnguarded(w, allowed) ==
    IF w.audioContext = "suspended" THEN [w EXCEPT !.pcResume = "ctx"]
    ELSE ResumeArm(w, allowed)

\* resume(), from its first line to its first await.
ResumeEnter(w, allowed) ==
    IF ~w.audioElement.exists \/ ~w.isAnalyzed
    THEN [w EXCEPT !.lastResume.outcome = "noop"]
    ELSE IF w.audioContext = "suspended" THEN [w EXCEPT !.pcResume = "ctx"]
    ELSE ResumeArm(w, allowed)

ResumeReturns(w, outcome) ==
    [w EXCEPT !.pcResume = "idle", !.lastResume.outcome = outcome]

\* ------------------------------------------------------- a timer runs out
\* onBeatDetected(...) is called: Game.handleBeat.
Invoke(w, t) ==
    [w EXCEPT !.fired = Bump(@, t.idx),
              !.firedR = IF w.phase = "SPR" /\ w.lastResume.armed
                         THEN Bump(@, t.idx) ELSE @,
              !.sessMax = Max(@, t.beat.time),
              !.lastCb = [beat |-> t.beat, idx |-> t.idx,
                          args |-> CallbackArgs(t.by, t.beat),
                          by |-> t.by, op |-> t.op, age |-> t.age,
                          pos |-> t.pos, stale |-> t.stale,
                          halted |-> Halted(w), prevMax |-> w.sessMax]]

\* The arrow function handed to setTimeout, in start() and in resume().
TimerBody(w, t) ==
    IF w.isPlaying /\ w.onBeatDetected # "null" THEN Invoke(w, t) ELSE w

FireTimer(w, t) == TimerBody([w EXCEPT !.timers = @ \ {t}], t)

\* ------------------------------------------------------------ time passes
\* Playback advances the position and ends (paused again) at Duration.
ElemTick(e) ==
    IF ~e.exists \/ e.paused THEN e
    ELSE [e EXCEPT !.currentTime = @ + 1, !.paused = (e.currentTime + 1 >= Duration)]

Tick(w) ==
    [w EXCEPT !.timers = {[t EXCEPT !.rem = @ - 1, !.age = @ + 1] : t \in @},
              !.audioElement = ElemTick(@),
              !.elapsed = IF w.phase = "S" /\ w.lastStart.armed
                          THEN Min(@ + 1, Duration) ELSE @]

\* ---------------------------------------------------------------- actions
CtxStates == {"suspended", "running"}

\* The state after `new Game()`, `new MenuSystem(game)` and
\* setAudioTrack(...) in main.js.  The AudioManager constructor creates
\* debugDiv when the page is served from localhost.
Init ==
    /\ isInitialized = FALSE
    /\ isAnalyzed = FALSE
    /\ isPlaying = FALSE
    /\ beatMap = <<>>
    /\ onBeatDetected = "null"
    /\ audioElement = NoElem
    /\ audioContext = "null"
    /\ debugDiv \in BOOLEAN
    /\ timers = {}
    /\ pcStart = "idle"
    /\ pcResume = "idle"
    /\ run = NoRun
    /\ prevRun = NoRun
    /\ plannedObstacles = <<>>
    /\ obstacleQueue = <<>>
    /\ lastObstaclePosition = 0
    /\ playerX = 0
    /\ isRunning = FALSE
    /\ gameLoop = FALSE
    /\ currentMenu = "main"
    /\ isLoading = FALSE
    /\ planInput = <<>>
    /\ lastOp = "none"
    /\ alt = NoAlt
    /\ nCalls = 0
    /\ nArms = 0
    /\ phase = "none"
    /\ lastCall = "none"
    /\ ended = FALSE
    /\ fired = ZeroCount
    /\ firedR = ZeroCount
    /\ sessMax = 0
    /\ lastCb = NoCb
    /\ lastStart = NoStart
    /\ lastResume = NoResume
    /\ elapsed = 0

\* A timer whose delay has run out is the next task to run: calls of the
\* interface come before or after it, not between its expiry and its run.
NoTimerDue == \A t \in timers : t.rem > 0

CanCall == nCalls < MaxCalls /\ NoTimerDue

\* start(beatCallback) is called; one start() is in flight at a time.
StartCall ==
    /\ CanCall /\ pcStart = "idle"
    /\ \E ctx \in CtxStates, allowed \in BOOLEAN :
         Step(StartEnter(NewSession(Called(Cur, "start")), ctx, allowed))

\* canplaythrough: initialize() returns and start() goes on.
InitDone ==
    /\ pcStart = "init"
    /\ \E allowed \in BOOLEAN :
         Step(StartAnalyzed([Cur EXCEPT !.isInitialized = TRUE], allowed))

\* the element's error event: initialize() throws, and so does start().
InitFail ==
    /\ pcStart = "init"
    /\ Step(StartReturns(Cur, "threw"))

\* The analysis audio has ended after every frame ran: the detected beats
\* are sorted and filtered, isAnalyzed is set and start() goes on.
AnalysisComplete ==
    /\ pcStart = "analyze"
    /\ \E samples \in SampleRuns, allowed \in BOOLEAN :
         LET r == RunFrames(samples, Duration, debugDiv)
             bm == FilterBeats(SortByTime(r.beatMap), 1)
         IN /\ ~r.crashed
            /\ Step(StartBody([Cur EXCEPT !.beatMap = bm, !.isAnalyzed = TRUE], allowed))

\* A frame callback threw: no later frame runs, the promise of
\* analyzeFullTrack() is never settled and start() stays suspended.
AnalysisStalls ==
    /\ pcStart = "analyze"
    /\ \E samples \in SampleRuns :
         LET r == RunFrames(samples, Duration, debugDiv) IN
         /\ r.crashed
         /\ Step([Cur EXCEPT !.beatMap = r.beatMap, !.pcStart = "stalled"])

\* The analysis audio fails (error event, play() rejected) after some
\* frames: analyzeFullTrack() rejects, and so does start().
AnalysisFail ==
    /\ pcStart = "analyze"
    /\ \E samples \in SampleRuns, upto \in 0 .. Duration :
         LET r == RunFrames(samples, upto, debugDiv) IN
         /\ ~r.crashed
         /\ Step(StartReturns([Cur EXCEPT !.beatMap = r.beatMap], "threw"))

\* audioContext.resume() awaited by start() settles.
StartCtxResolved ==
    /\ pcStart = "ctx"
    /\ \E allowed \in BOOLEAN :
         Step(StartArm([Cur EXCEPT !.audioContext = "running"], allowed))

StartCtxRejected ==
    /\ pcStart = "ctx"
    /\ Step(StartReturns([Cur EXCEPT !.lastStart.playbackFailed = TRUE], "false"))

\* audioElement.play() awaited by start() settles.
StartPlayResolved ==
    /\ pcStart = "play"
    /\ Step(StartReturns(Cur, "true"))

StartPlayRejected ==
    /\ pcStart = "playRejected"
    /\ Step(StartReturns([Cur EXCEPT !.lastStart.playbackFailed = TRUE], "false"))

StopCall ==
    /\ CanCall
    /\ Step(Stop(Called(Cur, "stop")))

PauseCall ==
    /\ CanCall
    /\ Step(Pause(Called(Cur, "pause")))

\* resume() is called; one resume() is in flight at a time.
ResumeCall ==
    /\ CanCall /\ pcResume = "idle"
    /\ \E allowed \in BOOLEAN :
         Step(ResumeEnter(NewResume(Called(Cur, "resume")), allowed))

\* MenuSystem.retryGame, from the death menu (shown with the pause() of
\* showDeathMenu, after the collision has stopped the game loop): stop(),
\* resume() and, through Game.start(), start() in one task.
RetryGame ==
    /\ CanCall /\ lastCall = "pause" /\ pcStart = "idle" /\ pcResume = "idle"
    /\ \E ctx \in CtxStates, allowed \in BOOLEAN :
         LET w1 == Stop(Called(Cur, "retry"))
             w2 == ResumeEnter(NewResume(w1), allowed)
         IN Step(StartEnter(NewSession(w2), ctx, allowed))

ResumeCtxResolved ==
    /\ pcResume = "ctx"
    /\ \E allowed \in BOOLEAN :
         Step(ResumeArm([Cur EXCEPT !.audioContext = "running"], allowed))

ResumeCtxRejected ==
    /\ pcResume = "ctx"
    /\ Step(ResumeReturns(Cur, "threw"))

\* audioElement.play() awaited by resume() settles.
ResumePlayResolved ==
    /\ pcResume = "play"
    /\ Step(ResumeReturns([Cur EXCEPT !.isPlaying = TRUE], "resolved"))

ResumePlayRejected ==
    /\ pcResume = "playRejected"
    /\ Step(ResumeReturns(Cur, "threw"))

\* A timer whose delay has run out runs.
TimerFires ==
    \E t \in timers :
        /\ t.rem = 0
        /\ Becomes(FireTimer([Cur EXCEPT !.lastCb = NoCb], t))

\* Half a second passes, once no timer is due and the promises of play()
\* and audioContext.resume(), which take milliseconds, are settled.
ClockTick ==
    /\ NoTimerDue
    /\ pcStart \in {"idle", "init", "analyze", "stalled"} /\ pcResume = "idle"
    /\ Tick(Cur) # Cur
    /\ Step(Tick(Cur))

Next ==
    \/ StartCall
    \/ InitDone
    \/ InitFail
    \/ AnalysisComplete
    \/ AnalysisStalls
    \/ AnalysisFail
    \/ StartCtxResolved
    \/ StartCtxRejected
    \/ StartPlayResolved
    \/ StartPlayRejected
    \/ StopCall
    \/ PauseCall
    \/ ResumeCall
    \/ RetryGame
    \/ ResumeCtxResolved
    \/ ResumeCtxRejected
    \/ ResumePlayResolved
    \/ ResumePlayRejected
    \/ TimerFires
    \/ ClockTick

Spec == Init /\ [][Next]_vars

\* ----------------------------------------- LevelGenerator with the Game
Abs(x) == IF x < 0 THEN 0 - x ELSE x

\* plannedObstacles.set(key, value): a Map keeps its keys in the order of
\* their first insertion.
MapSet(plan, key, value) ==
    IF \E i \in DOMAIN plan : plan[i].beatTime = key
    THEN [i \in DOMAIN plan |->
            IF plan[i].beatTime = key THEN [value EXCEPT !.beatTime = key] ELSE plan[i]]
    ELSE Append(plan, [value EXCEPT !.beatTime = key])

\* A beat map with its times in tenths of a second.
InTenths(bm) == [i \in DOMAIN bm |-> [bm[i] EXCEPT !.time = TenthsPerTick * @]]

\* preplanObstacles planning every beat.
PlanKeepsAll(first, gap) == TRUE

\* `beat.time - lastBeatTime >= minBeatInterval` of preplanObstacles;
\* first stands for lastBeatTime = -Infinity.
PlanKeeps(first, gap) == first \/ gap >= PlanInterval

\* beatMap.forEach of preplanObstacles from beat i on, the times of bm
\* being in tenths of a second.
RECURSIVE PlanBeats(_, _, _, _, _)
PlanBeats(bm, i, first, lastBeatTime, plan) ==
    IF i > Len(bm) THEN plan
    ELSE LET beat == bm[i] IN
         IF PlanKeeps(first, beat.time - lastBeatTime)
         THEN PlanBeats(bm, i + 1, FALSE, beat.time,
                        MapSet(plan, beat.time,
                               [beatTime |-> beat.time,
                                position |-> SpawnDistance
                                             + (Speed * beat.time) \div TenthsPerTick,
                                intensity |-> beat.intensity,
                                spawned |-> FALSE]))
         ELSE PlanBeats(bm, i + 1, first, lastBeatTime, plan)

\* LevelGenerator.preplanObstacles(beatMap): the plan is cleared and made
\* anew.
PreplanObstacles(w, bm) ==
    [w EXCEPT !.plannedObstacles = PlanBeats(bm, 1, TRUE, 0, <<>>),
              !.planInput = bm,
              !.lastOp = "preplanObstacles"]

\* LevelGenerator.spawnObstacle(position, intensity)
SpawnObstacle(w, position, intensity) ==
    [w EXCEPT !.obstacleQueue = Append(@, [x |-> position, intensity |-> intensity]),
              !.lastObstaclePosition = position]

\* update() spawning whatever the distance to the last obstacle.
AnyDistance(spawnPosition, last) == TRUE

\* `Math.abs(spawnPosition - this.lastObstaclePosition) >=
\* this.minObstacleDistance`
FarEnough(spawnPosition, last) == Abs(spawnPosition - last) >= MinObstacleDistance

\* LevelGenerator.generateObstacleOnBeat(intensity, playerFuturePos)
GenerateObstacleOnBeat(w, intensity, playerFuturePos) ==
    LET spawnPosition == playerFuturePos + SpawnDistance
        w1 == [w EXCEPT !.lastOp = "generateObstacleOnBeat"]
    IN IF Abs(spawnPosition - w.lastObstaclePosition) >= MinObstacleDistance
       THEN SpawnObstacle(w1, spawnPosition, intensity)
       ELSE w1

\* Game.handleBeat(intensity, time), the callback Game.start() hands to
\* AudioManager.start(), called with the arguments args.  Called without a
\* time, playerFuturePos is NaN, and so is the spawn position: the
\* comparison of generateObstacleOnBeat is false and nothing is spawned.
HandleBeat(w, args) ==
    IF Len(args) < 2 THEN [w EXCEPT !.lastOp = "generateObstacleOnBeat"]
    ELSE LET intensity == args[1]
             time == args[2]
             currentTime == w.audioElement.currentTime
             playerFuturePos == w.playerX + Speed * (time - currentTime)
         IN GenerateObstacleOnBeat(w, intensity, playerFuturePos)

\* update() spawning the beats of the past as well.
InWindowOrPast(timeUntilBeat) == timeUntilBeat <= LookAhead

\* `timeUntilBeat > 0 && timeUntilBeat <= 2.5`
InWindow(timeUntilBeat) == timeUntilBeat > 0 /\ timeUntilBeat <= LookAhead

\* plannedObstacles.forEach of LevelGenerator.update() from entry i on
RECURSIVE SpawnPlanned(_, _)
SpawnPlanned(w, i) ==
    IF i > Len(w.plannedObstacles) THEN w
    ELSE LET obstacle == w.plannedObstacles[i]
             currentTime == TenthsPerTick * w.audioElement.currentTime
             timeUntilBeat == obstacle.beatTime - currentTime
             spawnPosition == w.playerX + SpawnDistance
         IN IF /\ ~obstacle.spawned
               /\ InWindow(timeUntilBeat)
               /\ FarEnough(spawnPosition, w.lastObstaclePosition)
            THEN SpawnPlanned(
                     [SpawnObstacle(w, spawnPosition, obstacle.intensity)
                         EXCEPT !.plannedObstacles[i].spawned = TRUE], i + 1)
            ELSE SpawnPlanned(w, i + 1)

\* update() removing no obstacle.
NeverBehind(obstacle, x) == FALSE

\* `obstacle.position.x < playerX + this.obstacleSettings.despawnDistance`
IsBehind(obstacle, x) == obstacle.x < x + DespawnDistance

\* obstacleQueue.filter of LevelGenerator.update()
RECURSIVE Despawn(_, _)
Despawn(queue, x) ==
    IF queue = <<>> THEN <<>>
    ELSE IF IsBehind(Head(queue), x)
         THEN Despawn(Tail(queue), x)
         ELSE <<Head(queue)>> \o Despawn(Tail(queue), x)

\* LevelGenerator.update()
LevelUpdate(w) ==
    LET w1 == SpawnPlanned(w, 1) IN
    [w1 EXCEPT !.obstacleQueue = Despawn(@, w.playerX), !.lastOp = "update"]

\* Game.gameLoop: a requested frame updates and renders while isRunning.
LoopRuns(w) == w.gameLoop /\ w.isRunning

\* Player.update(deltaTime) over the frames of one tick: the player moves
\* on by game.speed * deltaTime, at most as far as the track lasts.
PlayerTick(w) ==
    IF LoopRuns(w) /\ w.playerX + Speed <= Speed * Duration
    THEN [w EXCEPT !.playerX = @ + Speed]
    ELSE w

\* Game.update(deltaTime) of one frame, the player being where the ticks
\* so far have brought it: the level generator's update runs.
GameUpdate(w) == LevelUpdate(w)

\* LevelGenerator.reset()
LevelReset(w) ==
    [w EXCEPT !.obstacleQueue = <<>>,
              !.plannedObstacles = <<>>,
              !.lastObstaclePosition = 0,
              !.lastOp = "reset"]

\* Game.reset()
GameReset(w) ==
    [w EXCEPT !.playerX = 0,
              !.obstacleQueue = <<>>,
              !.lastObstaclePosition = 0]

\* Game.stop()
GameStop(w) == [w EXCEPT !.isRunning = FALSE]

\* Game.start() without its `if (!this.isRunning)`
GameStartUnguarded(w, ctx, allowed) ==
    LET w1 == [w EXCEPT !.isRunning = TRUE]
        w2 == IF Len(w1.beatMap) > 0
              THEN PreplanObstacles(w1, InTenths(w1.beatMap)) ELSE w1
    IN StartEnter(NewSession(w2), ctx, allowed)

\* Game.start(), from its first line to the first await of
\* audioManager.start(this.handleBeat.bind(this)); while isRunning it
\* returns false at once, which lastOp records.
GameStart(w, ctx, allowed) ==
    IF w.isRunning THEN [w EXCEPT !.lastOp = "start returned false"]
    ELSE LET w1 == [w EXCEPT !.isRunning = TRUE]
             w2 == IF Len(w1.beatMap) > 0
                   THEN PreplanObstacles(w1, InTenths(w1.beatMap)) ELSE w1
         IN StartEnter(NewSession(w2), ctx, allowed)

\* Game.start() after audioManager.start() has settled: the first frame of
\* gameLoop() runs, or, start() having thrown, isRunning is taken back
\* and the error is thrown on, which lastOp records.
\* MenuSystem.startGame, which awaits Game.start(), then ends with
\* `this.isLoading = false`.
GameStartReturns(w, outcome) ==
    LET w1 == StartReturns(w, outcome)
        w2 == IF outcome = "threw"
              THEN [w1 EXCEPT !.isRunning = FALSE, !.lastOp = "start threw"]
              ELSE IF w1.isRunning
                   THEN [GameUpdate(w1) EXCEPT !.gameLoop = TRUE]
                   ELSE w1
    IN [w2 EXCEPT !.isLoading = FALSE]

\* MenuSystem.hideMenus()
HideMenus(w) == [w EXCEPT !.currentMenu = "none"]

\* MenuSystem.startGame, from hideMenus() to the await of Game.start().
MenuGameStart(w, ctx, allowed) ==
    LET w1 == HideMenus(w) IN
    IF w1.isRunning THEN [w1 EXCEPT !.isLoading = FALSE]
    ELSE GameStart(Called(w1, "start"), ctx, allowed)

\* MenuSystem.startGame, from `if (!this.audioManager.isAnalyzed)` on.
MenuAnalyzed(w, ctx, allowed) ==
    IF ~w.isAnalyzed THEN AnalyzeBegin(w) ELSE MenuGameStart(w, ctx, allowed)

\* startGame without its `if (this.isLoading) return`
MenuStartGameUnguarded(w, ctx, allowed) ==
    LET w1 == [w EXCEPT !.isLoading = TRUE, !.lastOp = "startGame"] IN
    IF ~w1.isInitialized THEN InitializeBegin(w1, ctx)
    ELSE MenuAnalyzed(w1, ctx, allowed)

\* MenuSystem.startGame, from its first line to its first await; the audio
\* track is the one main.js has set.
MenuStartGame(w, ctx, allowed) ==
    IF w.isLoading THEN [w EXCEPT !.lastOp = "startGame returned"]
    ELSE LET w1 == [w EXCEPT !.isLoading = TRUE, !.lastOp = "startGame"] IN
         IF ~w1.isInitialized THEN InitializeBegin(w1, ctx)
         ELSE MenuAnalyzed(w1, ctx, allowed)

\* MenuSystem.startGame's catch and finally: the error is shown and the
\* main menu stays.
MenuStartFails(w) == [w EXCEPT !.pcStart = "idle", !.isLoading = FALSE]

\* MenuSystem.showMainMenu()
ShowMainMenu(w) == GameStop([Stop(w) EXCEPT !.currentMenu = "main"])

\* MenuSystem.showDeathMenu()
ShowDeathMenu(w) == [Pause(w) EXCEPT !.currentMenu = "death"]

\* Game.handleCollision(): the game stops and the listener of 'gameover',
\* which the MenuSystem has added, shows the death menu.
HandleCollision(w) == ShowDeathMenu(Called(GameStop(w), "pause"))

\* MenuSystem.retryGame(), up to the return of this.game.reset()
MenuRetryReset(w, allowed) ==
    LET w1 == Stop(Called(HideMenus(w), "retry"))
        w2 == ResumeEnter(NewResume(w1), allowed)
    IN GameReset(w2)

\* MenuSystem.retryGame()
MenuRetryGame(w, ctx, allowed) ==
    GameStart(MenuRetryReset(w, allowed), ctx, allowed)

\* startGame() is called while the main menu is there, as the onclick of
\* its play button calls it; the button's disabled flag is not modelled.
PlayClick ==
    /\ CanCall /\ currentMenu = "main"
    /\ \E ctx \in CtxStates, allowed \in BOOLEAN :
         Step(MenuStartGame(Cur, ctx, allowed))

\* canplaythrough: initialize() returns and startGame goes on.
MenuInitDone ==
    /\ pcStart = "init" /\ isLoading
    /\ \E ctx \in CtxStates, allowed \in BOOLEAN :
         Step(MenuAnalyzed([Cur EXCEPT !.isInitialized = TRUE], ctx, allowed))

\* the element's error event: initialize() throws.
MenuInitFail ==
    /\ pcStart = "init" /\ isLoading
    /\ Step(MenuStartFails(Cur))

\* The analysis audio has ended after every frame ran: the detected beats
\* are sorted and filtered, isAnalyzed is set and startGame goes on.
MenuAnalysisComplete ==
    /\ pcStart = "analyze" /\ isLoading
    /\ \E samples \in SampleRuns, ctx \in CtxStates, allowed \in BOOLEAN :
         LET r == RunFrames(samples, Duration, debugDiv)
             bm == FilterBeats(SortByTime(r.beatMap), 1)
         IN /\ ~r.crashed
            /\ Step(MenuGameStart([Cur EXCEPT !.beatMap = bm, !.isAnalyzed = TRUE],
                                  ctx, allowed))

\* A frame callback threw: analyzeFullTrack() never settles and startGame
\* stays suspended with isLoading set.
MenuAnalysisStalls ==
    /\ pcStart = "analyze" /\ isLoading
    /\ \E samples \in SampleRuns :
         LET r == RunFrames(samples, Duration, debugDiv) IN
         /\ r.crashed
         /\ Step([Cur EXCEPT !.beatMap = r.beatMap, !.pcStart = "stalled"])

\* The analysis audio fails after some frames: analyzeFullTrack() rejects.
MenuAnalysisFail ==
    /\ pcStart = "analyze" /\ isLoading
    /\ \E samples \in SampleRuns, upto \in 0 .. Duration :
         LET r == RunFrames(samples, upto, debugDiv) IN
         /\ ~r.crashed
         /\ Step(MenuStartFails([Cur EXCEPT !.beatMap = r.beatMap]))

\* audioContext.resume() awaited by start() rejects: start() returns false
\* to Game.start().
GameStartCtxRejected ==
    /\ pcStart = "ctx"
    /\ Step(GameStartReturns([Cur EXCEPT !.lastStart.playbackFailed = TRUE], "false"))

\* audioElement.play() awaited by start() settles, and start() returns to
\* Game.start().
GameStartPlayResolved ==
    /\ pcStart = "play"
    /\ Step(GameStartReturns(Cur, "true"))

GameStartPlayRejected ==
    /\ pcStart = "playRejected"
    /\ Step(GameStartReturns([Cur EXCEPT !.lastStart.playbackFailed = TRUE], "false"))

\* The retry button of the death menu is clicked.
RetryClick ==
    /\ CanCall /\ currentMenu = "death" /\ pcStart = "idle" /\ pcResume = "idle"
    /\ \E ctx \in CtxStates, allowed \in BOOLEAN :
         Step(MenuRetryGame(Cur, ctx, allowed))

\* The menu button of the death menu is clicked.
MainMenuClick ==
    /\ CanCall /\ currentMenu = "death"
    /\ Step(ShowMainMenu(Called(Cur, "stop")))

\* A timer whose delay has run out runs, and the callback it invokes is
\* Game.handleBeat.
TimerCallsHandleBeat ==
    \E t \in timers :
        /\ t.rem = 0
        /\ LET w1 == FireTimer([Cur EXCEPT !.lastCb = NoCb], t) IN
           Becomes(IF w1.lastCb.by # "none"
                   THEN HandleBeat(w1, w1.lastCb.args)
                   ELSE w1)

\* A frame of Game.gameLoop in which no collision is found.
GameLoopFrame ==
    /\ LoopRuns(Cur)
    /\ GameUpdate(Cur) # Cur
    /\ Step(GameUpdate(Cur))

\* A frame of Game.gameLoop in which checkCollisions() finds the player's
\* box intersecting an obstacle's.  The boxes are not modelled: any frame
\* with a live obstacle may be that frame, once the promises of play() and
\* audioContext.resume() are settled: they take milliseconds, and the
\* player takes longer to reach an obstacle.
CollisionFrame ==
    /\ nCalls < MaxCalls
    /\ LoopRuns(Cur)
    /\ pcStart \in {"idle", "init", "analyze", "stalled"} /\ pcResume = "idle"
    /\ GameUpdate(Cur).obstacleQueue # <<>>
    /\ Step(HandleCollision(GameUpdate(Cur)))

\* The frame of Game.gameLoop after Game.stop(): it returns and requests
\* no further frame.
GameLoopEnds ==
    /\ gameLoop /\ ~isRunning
    /\ Step([Cur EXCEPT !.gameLoop = FALSE])

\* Half a second passes, as in ClockTick, and the player moves with it.
\* Frames are 16 ms apart: those that have something to do have run.
GameClockTick ==
    /\ NoTimerDue
    /\ pcStart \in {"idle", "init", "analyze", "stalled"} /\ pcResume = "idle"
    /\ ~(LoopRuns(Cur) /\ GameUpdate(Cur) # Cur)
    /\ ~(gameLoop /\ ~isRunning)
    /\ PlayerTick(Tick(Cur)) # Cur
    /\ Step(PlayerTick(Tick(Cur)))

NextG ==
    \/ PlayClick
    \/ MenuInitDone
    \/ MenuInitFail
    \/ MenuAnalysisComplete
    \/ MenuAnalysisStalls
    \/ MenuAnalysisFail
    \/ StartCtxResolved
    \/ GameStartCtxRejected
    \/ GameStartPlayResolved
    \/ GameStartPlayRejected
    \/ CollisionFrame
    \/ RetryClick
    \/ MainMenuClick
    \/ ResumeCtxResolved
    \/ ResumeCtxRejected
    \/ ResumePlayResolved
    \/ ResumePlayRejected
    \/ TimerCallsHandleBeat
    \/ GameLoopFrame
    \/ GameLoopEnds
    \/ GameClockTick

SpecG == Init /\ [][NextG]_vars

\* --------------------------------------------------- the Game by itself
\* Game.start() is called without the menus, at any moment, and called
\* again when it has thrown.
GameStartCall ==
    /\ NoTimerDue
    /\ \E ctx \in CtxStates, allowed \in BOOLEAN :
         \/ /\ isRunning
            /\ Step(GameStart(Cur, ctx, allowed))
         \/ /\ ~isRunning /\ pcStart = "idle" /\ nCalls < MaxCalls
            /\ Step(GameStart(Called(Cur, "start"), ctx, allowed))

\* the element's error event: initialize() throws, start() with it, and
\* Game.start() catches the error.
GameInitFail ==
    /\ pcStart = "init"
    /\ Step(GameStartReturns(Cur, "threw"))

\* The analysis audio fails after some frames: analyzeFullTrack() rejects,
\* start() with it, and Game.start() catches the error.
GameAnalysisFail ==
    /\ pcStart = "analyze"
    /\ \E samples \in SampleRuns, upto \in 0 .. Duration :
         LET r == RunFrames(samples, upto, debugDiv) IN
         /\ ~r.crashed
         /\ Step(GameStartReturns([Cur EXCEPT !.beatMap = r.beatMap], "threw"))

NextS ==
    \/ GameStartCall
    \/ InitDone
    \/ GameInitFail
    \/ AnalysisComplete
    \/ AnalysisStalls
    \/ GameAnalysisFail
    \/ StartCtxResolved
    \/ GameStartCtxRejected
    \/ GameStartPlayResolved
    \/ GameStartPlayRejected
    \/ TimerCallsHandleBeat
    \/ GameLoopFrame
    \/ GameClockTick

SpecS == Init /\ [][NextS]_vars

\* ------------------------------------------ the LevelGenerator by itself
\* What `new Game()`, `new MenuSystem(game)` and setAudioTrack(...) leave.
Constructed ==
    [isInitialized |-> FALSE, isAnalyzed |-> FALSE,
     isPlaying |-> FALSE, beatMap |-> <<>>,
     onBeatDetected |-> "null", audioElement |-> NoElem,
     audioContext |-> "null", debugDiv |-> FALSE, timers |-> {},
     pcStart |-> "idle", pcResume |-> "idle",
     run |-> NoRun, prevRun |-> NoRun,
     plannedObstacles |-> <<>>, obstacleQueue |-> <<>>,
     lastObstaclePosition |-> 0, playerX |-> 0,
     isRunning |-> FALSE, gameLoop |-> FALSE,
     currentMenu |-> "main", isLoading |-> FALSE,
     planInput |-> <<>>, lastOp |-> "none", alt |-> NoAlt,
     nCalls |-> 0, nArms |-> 0, phase |-> "none",
     lastCall |-> "none", ended |-> FALSE, fired |-> ZeroCount,
     firedR |-> ZeroCount, sessMax |-> 0, lastCb |-> NoCb,
     lastStart |-> NoStart, lastResume |-> NoResume, elapsed |-> 0]

Is(w) ==
    /\ isInitialized = w.isInitialized
    /\ isAnalyzed = w.isAnalyzed
    /\ isPlaying = w.isPlaying
    /\ beatMap = w.beatMap
    /\ onBeatDetected = w.onBeatDetected
    /\ audioElement = w.audioElement
    /\ audioContext = w.audioContext
    /\ debugDiv = w.debugDiv
    /\ timers = w.timers
    /\ pcStart = w.pcStart
    /\ pcResume = w.pcResume
    /\ run = w.run
    /\ prevRun = w.prevRun
    /\ plannedObstacles = w.plannedObstacles
    /\ obstacleQueue = w.obstacleQueue
    /\ lastObstaclePosition = w.lastObstaclePosition
    /\ playerX = w.playerX
    /\ isRunning = w.isRunning
    /\ gameLoop = w.gameLoop
    /\ currentMenu = w.currentMenu
    /\ isLoading = w.isLoading
    /\ planInput = w.planInput
    /\ lastOp = w.lastOp
    /\ alt = w.alt
    /\ nCalls = w.nCalls
    /\ nArms = w.nArms
    /\ phase = w.phase
    /\ lastCall = w.lastCall
    /\ ended = w.ended
    /\ fired = w.fired
    /\ firedR = w.firedR
    /\ sessMax = w.sessMax
    /\ lastCb = w.lastCb
    /\ lastStart = w.lastStart
    /\ lastResume = w.lastResume
    /\ elapsed = w.elapsed

\* The page after Play on a track in which the analysis finds no beat:
\* startGame has initialised and analysed, and Game.start() has called
\* start(), which awaits play().
GameStarting ==
    LET w1 == MenuStartGame(Constructed, "running", TRUE)
        w2 == MenuAnalyzed([w1 EXCEPT !.isInitialized = TRUE], "running", TRUE)
    IN MenuGameStart([w2 EXCEPT !.isAnalyzed = TRUE], "running", TRUE)

\* The beat maps handed to preplanObstacles: up to MaxBeats beats in the
\* order of their times, which are tenths of a second.
MaxBeats == 3
PlanTimes == {3, 4, 5, 25, 26}
PlanTimesOf(n) ==
    {ts \in [1 .. n -> PlanTimes] : \A i \in 1 .. n - 1 : ts[i] <= ts[i + 1]}
PlanBeatsOf(n) ==
    {[i \in 1 .. n |->
        [time |-> ts[i], intensity |-> IF i % 2 = 1 THEN a ELSE MinBeatIntensity]] :
        ts \in PlanTimesOf(n), a \in {MinBeatIntensity, One}}
PlanMaps == UNION {PlanBeatsOf(n) : n \in 0 .. MaxBeats}

\* How far the player gets between two frames looked at, and in all.
PlayerSteps == {5, 50}
MaxPlayerX == 60

\* A session begins as Game.start() begins it, here with a beat map bm
\* whose times are tenths of a second: the plan is made of it and start()
\* plays from 0.
SessionStart(w, bm) ==
    LET w1 == PreplanObstacles(w, bm) IN
    [w1 EXCEPT !.audioElement = ElemPlay([@ EXCEPT !.currentTime = 0], TRUE)]

InitL == \E bm \in PlanMaps : Is(SessionStart(GameStarting, bm))

\* MenuSystem.retryGame after a collision, seen from the level generator:
\* Game.reset(), and Game.start() begins the session again with the beat
\* map of the track.
RestartCall ==
    /\ nCalls < MaxCalls
    /\ Step(SessionStart(GameReset(Called(Cur, "retry")), planInput))

\* LevelGenerator.update() is called, as a frame of the game loop calls it.
UpdateCall ==
    /\ LevelUpdate(Cur) # Cur
    /\ Step(LevelUpdate(Cur))

\* Frames are 16 ms apart: the frame that has something to do has run
\* before the player or the playback gets any further.
FrameDone == LevelUpdate(Cur) = Cur

\* Player.update: the player moves on.
PlayerMoves ==
    /\ FrameDone
    /\ \E dx \in PlayerSteps :
        /\ playerX + dx <= MaxPlayerX
        /\ Step([Cur EXCEPT !.playerX = @ + dx])

\* Half a second of playback.
PlaybackTick ==
    /\ FrameDone
    /\ ElemTick(audioElement) # audioElement
    /\ Step([Cur EXCEPT !.audioElement = ElemTick(@)])

\* LevelGenerator.reset() is called.
LevelResetCall ==
    /\ nCalls < MaxCalls
    /\ Step(LevelReset(Called(Cur, "reset")))

NextL ==
    \/ RestartCall
    \/ UpdateCall
    \/ PlayerMoves
    \/ PlaybackTick
    \/ LevelResetCall

SpecL == InitL /\ [][NextL]_vars

\* ------------------------------------------- the analysis, frame by frame
\* canplaythrough of the analysis audio: play() resolves and the first
\* frame is requested.
AnalysisPlays ==
    /\ pcStart = "analyze" /\ run.status = "loading"
    /\ Step([Cur EXCEPT !.run.status = "running"])

\* The readings of analysisAudio.currentTime a frame can make: the one of
\* the frame before (two frames within the same reading of the clock) or
\* the next one, before the audio's end.
Readings(r) ==
    {t \in {r.time, r.time + 1} :
        /\ t < Duration
        /\ (t = r.time /\ r.samples # <<>>) => r.repeats < MaxRepeats}

\* One frame of analyze() while the analysis audio plays: the detector runs
\* on the frame's energy and the beat it finds is pushed on this.beatMap.
\* When the frame throws, no next frame is requested.
AnalyzeStep(w, currentTime, totalEnergy) ==
    LET r == w.run
        st == AnalyzeFrame([r.st EXCEPT !.beatMap = w.beatMap],
                           currentTime, totalEnergy, w.debugDiv)
    IN [w EXCEPT !.beatMap = st.beatMap,
                 !.pcStart = IF st.crashed THEN "stalled" ELSE @,
                 !.run = [r EXCEPT !.st = [st EXCEPT !.beatMap = <<>>],
                                   !.time = currentTime,
                                   !.repeats = IF currentTime = r.time /\ r.samples # <<>>
                                               THEN @ + 1 ELSE @,
                                   !.samples = Append(@, <<currentTime, totalEnergy>>),
                                   !.threw = st.crashed,
                                   !.status = IF st.crashed THEN "dead" ELSE "running"]]

AnalysisFrame ==
    /\ run.status = "running"
    /\ \E currentTime \in Readings(run), totalEnergy \in Energies :
         Step(AnalyzeStep(Cur, currentTime, totalEnergy))

\* The frame that finds the analysis audio ended: this.beatMap is sorted
\* and filtered, isAnalyzed is set, the promise resolves and start() goes
\* on.
AnalysisDone(w) ==
    LET bm == FilterBeats(SortByTime(w.beatMap), 1) IN
    [w EXCEPT !.beatMap = bm,
              !.isAnalyzed = TRUE,
              !.run.status = "done",
              !.run.time = Duration,
              !.run.result = bm]

AnalysisEnds ==
    /\ run.status = "running" /\ run.time = Duration - 1
    /\ \E allowed \in BOOLEAN : Step(StartBody(AnalysisDone(Cur), allowed))

\* The analysis audio's error event, or its play() rejected: the promise of
\* analyzeFullTrack() is rejected, and start() throws.
AnalysisError ==
    /\ run.status \in {"loading", "running"}
    /\ Step(StartReturns([Cur EXCEPT !.run.status = "failed"], "threw"))

\* After a frame threw, the analysis audio plays on to its end and no frame
\* looks at it.
AudioPlaysOn ==
    /\ run.status = "dead" /\ run.time < Duration
    /\ Step([Cur EXCEPT !.run.time = @ + 1])

\* setAudioTrack(url): the flags and the beat map are reset; a run in
\* flight is left alone.
SetAudioTrack(w) ==
    [w EXCEPT !.isInitialized = FALSE,
              !.isAnalyzed = FALSE,
              !.beatMap = <<>>,
              !.run.stale = @ \/ w.run.status \in {"loading", "running", "dead"}]

SetAudioTrackCall ==
    /\ CanCall
    /\ Step(SetAudioTrack(Called(Cur, "setAudioTrack")))

NextA ==
    \/ StartCall
    \/ InitDone
    \/ InitFail
    \/ AnalysisPlays
    \/ AnalysisFrame
    \/ AnalysisEnds
    \/ AnalysisError
    \/ AudioPlaysOn
    \/ StartCtxResolved
    \/ StartCtxRejected
    \/ StartPlayResolved
    \/ StartPlayRejected

SpecA == Init /\ [][NextA]_vars

\* ------------------------------------------------ the detector by itself
\* A run of the analysis over some sixty frames a second: the first
\* FreeFrames frames read any of three energies (200 is above
\* energyThreshold only by its rise from 50) and may find the clock
\* advanced by a tick; the frames after them, up to MaxFrames, are silent
\* and fall in the same tick.  A second detector with beatParams of its
\* own reads the same frames.
FreeFrames == 3
MaxFrames == 32
EnergiesD == {50, 200, 300}

AltParams ==
    {[BeatParams EXCEPT !.dynamicRange = 500],
     [BeatParams EXCEPT !.beatDecay = 500],
     [BeatParams EXCEPT !.historySize = 2],
     [dynamicRange |-> 2000, beatDecay |-> 1000, historySize |-> 12]}

\* start() has been called on the new page, initialize() has returned and
\* analyzeFullTrack() awaits the analysis audio.
Analysing(w) ==
    LET w1 == StartEnter(NewSession(Called(w, "start")), "running", TRUE)
    IN StartAnalyzed([w1 EXCEPT !.isInitialized = TRUE], TRUE)

InitD ==
    \E dbg \in BOOLEAN, p \in AltParams :
        Is(Analysing([Constructed EXCEPT !.debugDiv = dbg, !.alt.params = p]))

\* The first run is followed for MaxFrames frames, a later one for
\* FreeFrames.
FrameLimit(w) == IF w.nCalls > 1 THEN FreeFrames ELSE MaxFrames

DetectorReadings(r) ==
    IF Len(r.samples) < FreeFrames
    THEN {t \in {r.time, r.time + 1} : t < Duration}
    ELSE {r.time}

DetectorEnergies(r) == IF Len(r.samples) < FreeFrames THEN EnergiesD ELSE {50}

\* One frame of analyze(), read by both detectors.
DetectorStep(w, currentTime, totalEnergy) ==
    [AnalyzeStep(w, currentTime, totalEnergy) EXCEPT
        !.alt.st = AnalyzeFrameWith(w.alt.params, w.alt.st,
                                    currentTime, totalEnergy, w.debugDiv)]

DetectorFrame ==
    /\ run.status = "running" /\ Len(run.samples) < FrameLimit(Cur)
    /\ \E currentTime \in DetectorReadings(run), totalEnergy \in DetectorEnergies(run) :
         Step(DetectorStep(Cur, currentTime, totalEnergy))

\* The frame that finds the analysis audio ended, for both detectors.
DetectorDone(w) ==
    [AnalysisDone(w) EXCEPT !.alt.result = FilterBeats(SortByTime(w.alt.st.beatMap), 1)]

\* The audio ends within the first frames or after the last.
DetectorEnds ==
    /\ run.status = "running" /\ run.time = Duration - 1
    /\ Len(run.samples) <= FreeFrames \/ Len(run.samples) = MaxFrames
    /\ \E allowed \in BOOLEAN : Step(StartBody(DetectorDone(Cur), allowed))

\* The analysis audio's error event after the last of the frames: start()
\* throws, and can be called again.
DetectorFails ==
    /\ run.status = "running" /\ Len(run.samples) = MaxFrames
    /\ Step(StartReturns([Cur EXCEPT !.run.status = "failed"], "threw"))

NextD ==
    \/ StartCall
    \/ AnalysisPlays
    \/ DetectorFrame
    \/ DetectorEnds
    \/ DetectorFails

SpecD == InitD /\ [][NextD]_vars

\* The analysis with changes of the track.
NextT ==
    \/ NextA
    \/ SetAudioTrackCall

SpecT == Init /\ [][NextT]_vars

\* The scheduler with changes of the track.
NextR ==
    \/ Next
    \/ SetAudioTrackCall

SpecR == Init /\ [][NextR]_vars

\* ------------------------------------------------------------- properties
\* The beat a callback call belongs to.
CbBeat == lastCb.beat
IsCallback == lastCb.by # "none"

\* C1: after start -> pause -> resume, a beat later than the position at the
\* resume has its callback invoked exactly once after the resume (never
\* twice, and once by the time every timer has run and resume() has
\* returned), and a beat at or before that position is not invoked.
C1_NoDuplicateOrMissedAfterResume ==
    (phase = "SPR" /\ lastResume.armed) =>
        \A i \in DOMAIN beatMap :
            IF beatMap[i].time > lastResume.pos
            THEN /\ firedR[i] <= 1
                 /\ (timers = {} /\ lastResume.outcome = "resolved") => firedR[i] = 1
            ELSE firedR[i] = 0

\* C2: in the session begun by the retry sequence, after its stop() has
\* ended an earlier session, no beat has its callback invoked more than once.
C2_OncePerBeatInRestartedSession ==
    (lastCall = "retry" /\ lastStart.restart) =>
        \A i \in DOMAIN fired : fired[i] <= 1

\* C3: a timer armed before a pause() or stop() never invokes the callback
\* afterwards.
C3_CancelledTimerNeverInvokes ==
    IsCallback => ~lastCb.stale

\* C4: from a pause() or stop() until the next call of resume() or start(),
\* no callback is invoked.
C4_NoCallbackWhileHalted ==
    IsCallback => ~lastCb.halted

\* C5: within a session the callbacks are invoked in non-decreasing order of
\* beat time.
C5_CallbacksInTimeOrder ==
    IsCallback => CbBeat.time >= lastCb.prevMax

\* C6: after a start with no pause or stop, the audio position is counted
\* from 0 and there is one one-shot timer per beat, due at the beat's time
\* after the timers were armed; when the clock has advanced to t, exactly
\* the beats with time <= t have had their callback invoked, each once.
C6_StartFiresEachBeatAtItsTime ==
    (phase = "S" /\ lastStart.armed) =>
        /\ audioElement.currentTime =
               IF lastStart.playbackFailed \/ pcStart = "playRejected"
               THEN 0 ELSE elapsed
        /\ \A i \in DOMAIN beatMap :
               /\ Cardinality({t \in timers : t.idx = i}) + fired[i] = 1
               /\ fired[i] = 1 => beatMap[i].time <= elapsed
               /\ NoTimerDue =>
                      (fired[i] = 1 <=> beatMap[i].time <= elapsed)
        /\ \A t \in timers : t.rem = t.beat.time - elapsed

C6_Witness ==
    /\ phase = "S" /\ lastStart.armed /\ ~lastStart.unanalyzed
    /\ elapsed > 0
    /\ \E i, j \in DOMAIN beatMap :
          /\ fired[i] = 1 /\ beatMap[i].time = elapsed
          /\ fired[j] = 0 /\ beatMap[j].time > elapsed

C8_CallbackPassesIntensityAndTime ==
    IsCallback => lastCb.args = <<CbBeat.intensity, CbBeat.time>>

\* C9: a start whose playback failed to begin (play() or
\* audioContext.resume() rejected) reports the failure, leaves none of its
\* timers armed and invokes no callback.
C9_FailedStartLeavesNothingArmed ==
    lastStart.playbackFailed =>
        /\ lastStart.outcome # "true"
        /\ \A t \in timers : ~(t.by = "start" /\ t.op = lastStart.op)
        /\ ~(lastCb.by = "start" /\ lastCb.op = lastStart.op)

\* C10: no timer is armed and isPlaying is not true while isAnalyzed is
\* false.
C10_NothingArmedBeforeAnalysis ==
    (timers # {} \/ isPlaying) => isAnalyzed

C10_Witness ==
    /\ lastStart.unanalyzed
    /\ isAnalyzed /\ isPlaying /\ timers # {}

\* C11: a run of the analysis whose audio has played to its end has
\* completed: the filtered map is stored, isAnalyzed was set and the task
\* of analyzeFullTrack() is settled, whatever the samples were.
C11_RunCompletesWhenAudioEnds ==
    run.time = Duration => run.status = "done"

\* C12: a frame of the analysis that threw does not end the run: the run
\* goes on with the later frames or has completed.
C12_FrameFailureDoesNotAbortRun ==
    run.threw => run.status \in {"running", "done"}

\* C13: after an analysis that failed, start() has thrown, the beat map is
\* empty and isAnalyzed is false.
C13_FailedAnalysisLeavesEmptyMap ==
    (run.status = "failed" /\ pcStart = "idle") =>
        /\ lastStart.outcome = "threw"
        /\ beatMap = <<>>
        /\ ~isAnalyzed

\* C14: once the track was changed during a run of the analysis, the beat
\* map holds no event of that run and the run does not set isAnalyzed.
C14_TrackChangeCancelsRun ==
    run.stale => (beatMap = <<>> /\ ~isAnalyzed)

\* C15: a step that leaves isAnalyzed true leaves the beat map as it is,
\* whether the step is start, stop, pause, resume or a timer of the
\* scheduler, or preplanObstacles, generateObstacleOnBeat or update of the
\* level generator; and LevelGenerator.reset(), which nothing in the
\* repository calls, would leave it as it is in every state.
C15_BeatMapFrozenOnceAnalyzed ==
    /\ [][(isAnalyzed /\ isAnalyzed') => beatMap' = beatMap]_vars
    /\ [](LevelReset(Cur).beatMap = beatMap)

C15_Witness ==
    /\ isAnalyzed /\ Len(beatMap) > 0
    /\ lastResume.armed
    /\ \E i \in DOMAIN plannedObstacles : plannedObstacles[i].spawned
    /\ Len(obstacleQueue) > 0
    /\ lastCb.by # "none"

\* C16: in the beat map a completed run stores, the times increase
\* strictly, and each event is at least minBeatInterval after the one
\* before it or more than 1.2 times as intense.
C16_CompletedMapOrderedAndSpaced ==
    run.status = "done" =>
        \A i \in 1 .. (Len(run.result) - 1) :
            LET a == run.result[i]
                b == run.result[i + 1]
            IN /\ a.time < b.time
               /\ \/ b.time - a.time >= MinBeatInterval
                  \/ 10 * b.intensity > 12 * a.intensity

C16_Witness ==
    /\ run.status = "done" /\ run.repeats > 0
    /\ \E i \in 1 .. (Len(run.result) - 1) :
          10 * run.result[i + 1].intensity > 12 * run.result[i].intensity

\* C17: in the beat map a completed run stores, no two events are closer
\* in time than minBeatInterval.
C17_CompletedMapMinInterval ==
    run.status = "done" =>
        \A i, j \in DOMAIN run.result :
            i # j => Abs(run.result[j].time - run.result[i].time) >= MinBeatInterval

C17_Witness ==
    /\ run.status = "done" /\ run.repeats = MaxRepeats
    /\ \E i \in 1 .. (Len(run.result) - 1) :
          run.result[i + 1].time - run.result[i].time = MinBeatInterval
    /\ run.result = beatMap /\ isAnalyzed

\* C18: every event in the beat map, at every moment of a run and after
\* it, has an intensity of at least minBeatIntensity and at most 1.0.
C18_IntensityWithinRange ==
    \A i \in DOMAIN beatMap :
        /\ beatMap[i].intensity >= MinBeatIntensity
        /\ beatMap[i].intensity <= One

C18_Witness ==
    /\ run.status = "running"
    /\ \E i \in DOMAIN beatMap : beatMap[i].intensity = MinBeatIntensity
    /\ \E i \in DOMAIN beatMap : beatMap[i].intensity = One

\* C19: two completed runs of the analysis that read the same samples, the
\* track not being changed during either, store the same beat map.
C19_AnalysisDeterministic ==
    (/\ run.status = "done" /\ prevRun.status = "done"
     /\ ~run.stale /\ ~prevRun.stale
     /\ run.samples = prevRun.samples) =>
        run.result = prevRun.result

C19_Witness ==
    /\ run.status = "done" /\ prevRun.status = "done"
    /\ ~run.stale /\ ~prevRun.stale
    /\ run.samples = prevRun.samples
    /\ Len(run.result) > 1
    /\ prevRun.st.lastBeatTime > 0 /\ prevRun.st.lastEnergy > 0

\* The frames of the run that read an energy above energyThreshold, and the
\* events the run has put in the beat map.
SpikeFrames == {k \in DOMAIN run.samples : run.samples[k][2] > EnergyThreshold}
Detected == IF run.status = "done" THEN run.result ELSE beatMap

\* The run has read, after its spike, a frame of low energy; the track was
\* not changed during the run.
SingleSpikeAt(k) ==
    /\ run.status \in {"running", "dead", "done"} /\ ~run.stale
    /\ SpikeFrames = {k}
    /\ k < Len(run.samples)

\* C20 as stated: a run whose only sample above energyThreshold is frame k
\* has exactly one beat, at the time of frame k, of intensity >= 0.70.
C20_SingleSpikeYieldsOneBeat ==
    \A k \in DOMAIN run.samples :
        SingleSpikeAt(k) =>
            /\ Len(Detected) = 1
            /\ Detected[1].time = run.samples[k][1]
            /\ Detected[1].intensity >= MinBeatIntensity

\* C20, amended: a run whose only sample above energyThreshold is frame k,
\* read at least minBeatInterval after the start of the track, has exactly
\* one beat, at the time of frame k, of intensity >= 0.70.
C20_LateSingleSpikeYieldsOneBeat ==
    \A k \in DOMAIN run.samples :
        (SingleSpikeAt(k) /\ run.samples[k][1] >= MinBeatInterval) =>
            /\ Len(Detected) = 1
            /\ Detected[1].time = run.samples[k][1]
            /\ Detected[1].intensity >= MinBeatIntensity

C20_Witness ==
    /\ run.status = "done" /\ run.samples = <<<<0, 50>>, <<1, 50>>, <<1, 300>>, <<2, 50>>>>
    /\ beatMap = <<[time |-> 1, intensity |-> One]>>

\* Distance of every two live obstacles.
Spaced(queue) ==
    \A i, j \in DOMAIN queue :
        i # j => Abs(queue[i].x - queue[j].x) >= MinObstacleDistance

\* C21: no two obstacles of obstacleQueue are closer to each other than
\* minObstacleDistance, whichever of update and generateObstacleOnBeat
\* has spawned them and however frames, timers and menu clicks interleave.
C21_LiveObstaclesSpaced == Spaced(obstacleQueue)

\* A beat map with a beat every 0.1 s.
EveryTenth(bm) ==
    /\ Len(bm) >= 2
    /\ \A i \in 1 .. Len(bm) - 1 : bm[i + 1].time - bm[i].time = 1

AllSpawned(plan) == \A i \in DOMAIN plan : plan[i].spawned

\* C22: when the beat map handed to preplanObstacles has a beat every
\* 0.1 s and update runs frame by frame while the player never moves back,
\* no two obstacles spawned from the plan are closer to each other than
\* minObstacleDistance.
C22_DenseMapSpawnsSpaced == EveryTenth(planInput) => Spaced(obstacleQueue)

C22_Witness ==
    /\ EveryTenth(planInput) /\ Len(planInput) = 3
    /\ Len(plannedObstacles) = 2 /\ AllSpawned(plannedObstacles)
    /\ Len(obstacleQueue) = 2 /\ lastOp = "update"

\* R is the set of the beats of bm that are retained: the first, and
\* every later one that is at least 0.2 s after the retained one before it.
IsRetained(bm, R) ==
    /\ (bm # <<>> => 1 \in R)
    /\ \A i \in DOMAIN bm \ {1} :
         LET prev == CHOOSE j \in R : j < i /\ \A k \in R : k < i => k <= j
         IN i \in R <=> bm[i].time - bm[prev].time >= PlanInterval

\* plan holds, in their order, one unspawned obstacle for each beat of R.
PlansExactly(plan, bm, R) ==
    /\ Len(plan) = Cardinality(R)
    /\ \E f \in [DOMAIN plan -> R] :
         /\ \A k \in DOMAIN plan : k > 1 => f[k - 1] < f[k]
         /\ \A k \in DOMAIN plan :
              /\ plan[k].beatTime = bm[f[k]].time
              /\ plan[k].intensity = bm[f[k]].intensity
              /\ TenthsPerTick * (plan[k].position - SpawnDistance)
                   = Speed * bm[f[k]].time
              /\ ~plan[k].spawned

\* C23: right after preplanObstacles over a time-ordered beat map, the plan
\* is exactly one unspawned obstacle for each retained beat -- the first
\* beat and every beat at least 0.2 s after the retained one before it --
\* with the beat's time as key, spawnDistance + speed * time as position
\* and the beat's intensity; nothing of an earlier plan is left.
C23_PlanIsTheRetainedBeats ==
    lastOp = "preplanObstacles" =>
        \E R \in SUBSET DOMAIN planInput :
            IsRetained(planInput, R) /\ PlansExactly(plannedObstacles, planInput, R)

C23_Witness ==
    /\ lastOp = "preplanObstacles" /\ lastCall = "retry"
    /\ Len(planInput) = 3 /\ Len(plannedObstacles) = 2
    /\ planInput[2].time - planInput[1].time = 1
    /\ planInput[3].time - planInput[1].time = PlanInterval

\* A step in which LevelGenerator.update() has run.
UpdateStep ==
    lastOp' = "update" /\ playerX' = playerX /\ audioElement' = audioElement

\* timeUntilBeat of update() for a planned obstacle, in tenths of a second.
TimeUntilBeat(obstacle) ==
    obstacle.beatTime - TenthsPerTick * audioElement.currentTime

\* C24: update() spawns a planned obstacle only if it is unspawned, its
\* beat is more than 0 and at most 2.5 s ahead of the playback position
\* and playerX + spawnDistance is at least minObstacleDistance from
\* lastObstaclePosition; it marks it spawned, a spawned one stays spawned
\* and is never spawned again, and one that fails the distance test stays
\* unspawned.
C24_UpdateSpawnsInWindowOnce ==
    [][UpdateStep =>
        LET spawnPosition == playerX + SpawnDistance
            far == Abs(spawnPosition - lastObstaclePosition) >= MinObstacleDistance
            new == {i \in DOMAIN plannedObstacles :
                        ~plannedObstacles[i].spawned /\ plannedObstacles'[i].spawned}
        IN /\ DOMAIN plannedObstacles' = DOMAIN plannedObstacles
           /\ \A i \in DOMAIN plannedObstacles :
                /\ plannedObstacles[i].spawned => plannedObstacles'[i] = plannedObstacles[i]
                /\ plannedObstacles'[i] = [plannedObstacles[i] EXCEPT
                                             !.spawned = plannedObstacles'[i].spawned]
           /\ \A i \in new :
                /\ TimeUntilBeat(plannedObstacles[i]) > 0
                /\ TimeUntilBeat(plannedObstacles[i]) <= LookAhead
                /\ far
           /\ (~far => new = {})
           /\ Len(obstacleQueue') <= Len(obstacleQueue) + Cardinality(new)
           /\ (new = {} => lastObstaclePosition' = lastObstaclePosition)
           /\ (new # {} => lastObstaclePosition' = spawnPosition)]_vars

C24_Witness ==
    /\ lastOp = "update"
    /\ \E i, j \in DOMAIN plannedObstacles :
         /\ plannedObstacles[i].spawned
         /\ ~plannedObstacles[j].spawned
         /\ InWindow(TimeUntilBeat(plannedObstacles[j]))
         /\ ~FarEnough(playerX + SpawnDistance, lastObstaclePosition)
    /\ \E k \in DOMAIN plannedObstacles :
         ~plannedObstacles[k].spawned /\ TimeUntilBeat(plannedObstacles[k]) > LookAhead

\* The obstacles of queue at or ahead of the despawn line of a player at x.
AtOrAhead(queue, x) == SelectSeq(queue, LAMBDA o : o.x >= x + DespawnDistance)

\* C25: after a call of update() no obstacle of obstacleQueue is behind
\* playerX + despawnDistance, and every obstacle that was at or ahead of
\* that line is still there, in its place.
C25_DespawnBehindLineOnly ==
    [][UpdateStep =>
        LET kept == AtOrAhead(obstacleQueue, playerX) IN
        /\ \A i \in DOMAIN obstacleQueue' :
             obstacleQueue'[i].x >= playerX + DespawnDistance
        /\ Len(obstacleQueue') >= Len(kept)
        /\ SubSeq(obstacleQueue', 1, Len(kept)) = kept]_vars

C25_Witness ==
    /\ lastOp = "update"
    /\ \E i \in DOMAIN obstacleQueue : obstacleQueue[i].x = playerX + DespawnDistance
    /\ Len(obstacleQueue) < Cardinality({i \in DOMAIN plannedObstacles :
                                             plannedObstacles[i].spawned})

\* The level generator holds nothing of a session.
LevelCleared(w) ==
    /\ w.plannedObstacles = <<>>
    /\ w.obstacleQueue = <<>>
    /\ w.lastObstaclePosition = 0

\* C26: a reset of the play session leaves plannedObstacles empty,
\* obstacleQueue empty and lastObstaclePosition 0: LevelGenerator.reset()
\* in whatever state it is called, and the Game.reset() of retryGame
\* whenever the death menu offers the retry.
C26_ResetClearsPlan ==
    /\ LevelCleared(LevelReset(Cur))
    /\ currentMenu = "death" =>
         \A allowed \in BOOLEAN : LevelCleared(MenuRetryReset(Cur, allowed))

\* A step in which analyze() has read a frame.
FrameStep == run.status = "running" /\ Len(run'.samples) = Len(run.samples) + 1

\* C27: a frame emits a beat event, at the frame's currentTime, and sets
\* lastBeatTime to it, if and only if totalEnergy > energyThreshold or
\* totalEnergy - lastEnergy > energyThreshold / 2, and currentTime -
\* lastBeatTime >= minBeatInterval; no such frame is rejected for its
\* intensity.  A run that has read 50 in every frame has emitted no beat.
C27_BeatIffCandidate ==
    /\ [][FrameStep =>
            LET sample == run'.samples[Len(run'.samples)]
                currentTime == sample[1]
                totalEnergy == sample[2]
                cond == /\ \/ totalEnergy > EnergyThreshold
                           \/ 2 * (totalEnergy - run.st.lastEnergy) > EnergyThreshold
                        /\ currentTime - run.st.lastBeatTime >= MinBeatInterval
            IN IF cond
               THEN /\ Len(beatMap') = Len(beatMap) + 1
                    /\ SubSeq(beatMap', 1, Len(beatMap)) = beatMap
                    /\ beatMap'[Len(beatMap')].time = currentTime
                    /\ beatMap'[Len(beatMap')].intensity >= MinBeatIntensity
                    /\ run'.st.lastBeatTime = currentTime
               ELSE /\ beatMap' = beatMap
                    /\ run'.st.lastBeatTime = run.st.lastBeatTime]_vars
    /\ []((\A k \in DOMAIN run.samples : run.samples[k][2] = 50) =>
            (run.status \in {"running", "done"} => beatMap = <<>>))

C27_Witness ==
    /\ run.status = "running" /\ Len(run.samples) = 3
    /\ run.samples[1][2] = 300 /\ run.samples[1][1] = 0
    /\ run.samples[2][2] = 50
    /\ run.samples[3][2] = 200
    /\ beatMap = <<[time |-> run.samples[3][1], intensity |-> 9100]>>
    /\ run.st.lastBeatTime = run.samples[3][1]

\* The energies the frames of the run have read, in their order.
EnergiesRead == [k \in DOMAIN run.samples |-> run.samples[k][2]]

\* C28: beatHistory is never longer than historySize; after n frames of a
\* run it holds the energies of the last min(n, historySize) frames in
\* the order they were read, and it is empty when a run begins.
C28_HistoryIsBoundedFifo ==
    LET n == Len(EnergiesRead)
        k == Min(n, HistorySize)
    IN /\ Len(run.st.beatHistory) <= HistorySize
       /\ run.st.beatHistory = SubSeq(EnergiesRead, n - k + 1, n)

C28_Witness ==
    /\ Len(run.samples) > HistorySize
    /\ run.samples[1][2] = 200
    /\ run.samples[Len(run.samples) - HistorySize + 1][2] = 300
    /\ run.st.beatHistory[1] = 300

\* C29: the sort and the filter that end a run leave the events the
\* detector has pushed during the run as they are: the step in which the
\* run completes does not change the beat map, and at any moment of a run
\* sorting and filtering the events pushed so far would change nothing.
C29_PostProcessingIsIdentity ==
    /\ [][(run.status = "running" /\ run'.status = "done") => beatMap' = beatMap]_vars
    /\ [](run.status \in {"running", "dead"} =>
            FilterBeats(SortByTime(beatMap), 1) = beatMap)

C29_Witness ==
    /\ run.status = "done" /\ run.repeats > 0
    /\ Len(run.result) = 2 /\ beatMap = run.result
    /\ run.result[2].time - run.result[1].time = MinBeatInterval
    /\ run.result[1].intensity > run.result[2].intensity

\* C30: a run with other values of dynamicRange, beatDecay or historySize
\* over the same frames emits the same events as the run with the values
\* of the constructor, at every frame, and stores the same beat map when
\* it completes.
C30_MapIndependentOfDynamicThreshold ==
    /\ run.status \in {"loading", "running", "dead", "failed"} =>
         alt.st.beatMap = beatMap
    /\ run.status = "done" => alt.result = run.result

C30_Witness ==
    /\ run.status = "done" /\ Len(run.samples) = MaxFrames
    /\ Len(run.result) = 2 /\ alt.result = run.result
    /\ alt.params # BeatParams
    /\ run.st.dynamicThreshold > 0
    /\ alt.st.dynamicThreshold # run.st.dynamicThreshold
    /\ alt.st.beatHistory # run.st.beatHistory

\* C31: no event of the beat map has a time earlier than minBeatInterval
\* from the start of the track, and a frame that reads currentTime <
\* minBeatInterval emits nothing, whatever its energy.
C31_NoBeatBeforeMinInterval ==
    /\ [](\A i \in DOMAIN beatMap : beatMap[i].time >= MinBeatInterval)
    /\ [](run.status = "done" =>
            \A i \in DOMAIN run.result : run.result[i].time >= MinBeatInterval)
    /\ [][(FrameStep /\ run'.samples[Len(run'.samples)][1] < MinBeatInterval)
            => beatMap' = beatMap]_vars

C31_Witness ==
    /\ run.status = "running" /\ Len(run.samples) = 3
    /\ run.samples[1] = <<0, 300>> /\ run.samples[2] = <<0, 200>>
    /\ run.samples[3] = <<MinBeatInterval, 300>>
    /\ beatMap = <<[time |-> MinBeatInterval, intensity |-> One]>>

\* The look-ahead pass has spawned the planned obstacle of the beat.
LookAheadSpawned(beat) ==
    \E i \in DOMAIN plannedObstacles :
        /\ plannedObstacles[i].beatTime = TenthsPerTick * beat.time
        /\ plannedObstacles[i].spawned

\* C32: when, in a session whose playback has started, the callback of a
\* timer that the session's start() has armed calls handleBeat for a beat
\* whose planned obstacle the look-ahead pass has spawned, no second
\* obstacle is spawned for the beat.
C32_OneObstaclePerBeat ==
    [][(/\ lastCb'.by = "start" /\ lastCb'.op = lastStart.op /\ ~lastCb'.stale
        /\ lastStart.outcome = "true"
        /\ LookAheadSpawned(lastCb'.beat))
       => obstacleQueue' = obstacleQueue]_vars

\* C33: one call of update() spawns at most one obstacle, that of the
\* first unspawned planned obstacle in the window; lastObstaclePosition
\* is then playerX + spawnDistance and the other planned obstacles in the
\* window stay unspawned.
C33_UpdateSpawnsAtMostOne ==
    [][UpdateStep =>
        LET new == {i \in DOMAIN plannedObstacles :
                        ~plannedObstacles[i].spawned /\ plannedObstacles'[i].spawned}
            inWindow == {i \in DOMAIN plannedObstacles :
                            /\ ~plannedObstacles[i].spawned
                            /\ TimeUntilBeat(plannedObstacles[i]) > 0
                            /\ TimeUntilBeat(plannedObstacles[i]) <= LookAhead}
        IN /\ Cardinality(new) <= 1
           /\ Len(obstacleQueue') =
                 Len(AtOrAhead(obstacleQueue, playerX)) + Cardinality(new)
           /\ new # {} =>
                 /\ lastObstaclePosition' = playerX + SpawnDistance
                 /\ \A i \in new : \A j \in inWindow : i <= j
                 /\ \A j \in inWindow \ new : ~plannedObstacles'[j].spawned]_vars

C33_Witness ==
    /\ lastOp = "update" /\ Len(plannedObstacles) = 3
    /\ plannedObstacles[1].spawned
    /\ \A j \in {2, 3} :
         ~plannedObstacles[j].spawned /\ InWindow(TimeUntilBeat(plannedObstacles[j]))
    /\ lastObstaclePosition = playerX + SpawnDistance
    /\ Len(obstacleQueue) = 1

\* The death menu is shown, or the main menu that its menu button leads
\* to: the game has not been started again since the collision.
AfterCollision ==
    \/ currentMenu = "death"
    \/ currentMenu = "main" /\ lastCall = "stop"

\* C34: from a collision until the game is started again no obstacle is
\* spawned: isRunning and isPlaying are false, and no step adds an
\* obstacle to obstacleQueue, neither a frame of the game loop nor a timer
\* running out.
C34_NoSpawnAfterCollision ==
    /\ [](AfterCollision => ~isRunning /\ ~isPlaying)
    /\ [][AfterCollision =>
            /\ obstacleQueue' \in {obstacleQueue, <<>>}
            /\ (AfterCollision' => /\ obstacleQueue' = obstacleQueue
                                   /\ plannedObstacles' = plannedObstacles
                                   /\ lastObstaclePosition' = lastObstaclePosition
                                   /\ lastCb'.by = "none")]_vars

C34_Witness ==
    /\ currentMenu = "death" /\ ~gameLoop
    /\ nArms > 0 /\ timers = {}
    /\ \E i \in DOMAIN beatMap : fired[i] = 0
    /\ \E i \in DOMAIN plannedObstacles : ~plannedObstacles[i].spawned
    /\ obstacleQueue # <<>>

\* A step in which Game.start() is called from startGame.
GameStartCalled == nCalls' = nCalls + 1 /\ lastCall' = "start"

\* C35: while a call of startGame is in progress (isLoading), another call
\* returns at once and changes nothing of the program; Game.start() is
\* then called only by the call in progress, when its initialize() or its
\* analysis has returned; and when no await of the call is pending any
\* more, isLoading is false, whether the call failed or not.
C35_StartGameNonReentrant ==
    /\ [](isLoading =>
            \A ctx \in CtxStates, allowed \in BOOLEAN :
                MenuStartGame(Cur, ctx, allowed) =
                    [Cur EXCEPT !.lastOp = "startGame returned"])
    /\ [][(isLoading /\ GameStartCalled) => pcStart \in {"init", "analyze"}]_vars
    /\ [][(isLoading /\ pcStart = "analyze") => pcStart' # "init"]_vars
    /\ [](pcStart = "idle" => ~isLoading)

\* startGame was called again while the first call awaits the analysis.
C35_Witness ==
    /\ isLoading /\ pcStart = "analyze" /\ lastOp = "startGame returned"
    /\ isInitialized /\ ~isAnalyzed /\ currentMenu = "main"
    /\ audioContext = "suspended"

\* C36: while isRunning, Game.start() returns false and changes nothing:
\* no plan is made, start() of the AudioManager is not called and no timer
\* is armed; and when start() of the AudioManager throws, isRunning is
\* false again and Game.start() throws the error on.
C36_StartNoOpWhileRunning ==
    /\ [](isRunning =>
            \A ctx \in CtxStates, allowed \in BOOLEAN :
                GameStart(Cur, ctx, allowed) =
                    [Cur EXCEPT !.lastOp = "start returned false"])
    /\ [][(lastOp # "start returned false" /\ lastOp' = "start returned false") =>
            /\ timers' = timers /\ nArms' = nArms /\ nCalls' = nCalls
            /\ plannedObstacles' = plannedObstacles /\ planInput' = planInput
            /\ pcStart' = pcStart /\ isRunning /\ isRunning']_vars
    /\ [][(lastStart.outcome = "pending" /\ lastStart'.outcome = "threw") =>
            (isRunning /\ ~isRunning' /\ lastOp' = "start threw")]_vars
    /\ [](lastStart.outcome = "threw" => ~isRunning /\ ~gameLoop)

\* Game.start() was called again during a session with a beat's timer
\* pending and its planned obstacle spawned.
C36_Witness ==
    /\ isRunning /\ lastOp = "start returned false"
    /\ nArms = 1 /\ timers # {} /\ isPlaying /\ gameLoop
    /\ \E i \in DOMAIN plannedObstacles : plannedObstacles[i].spawned

\* `!this.audioElement || !this.isAnalyzed` of resume()
ResumeGuard == ~audioElement.exists \/ ~isAnalyzed

\* C37: resume() called when there is no audio element or when isAnalyzed
\* is false changes no field of the AudioManager, arms no timer, starts no
\* playback and awaits nothing; isPlaying stays as it was.
C37_ResumeNoOpWithoutTrack ==
    /\ [](ResumeGuard =>
            \A allowed \in BOOLEAN :
                LET w == ResumeEnter(NewResume(Called(Cur, "resume")), allowed)
                IN /\ w.timers = timers /\ w.nArms = nArms
                   /\ w.audioElement = audioElement /\ w.audioContext = audioContext
                   /\ w.isPlaying = isPlaying /\ w.pcResume = pcResume
                   /\ w.lastResume.outcome = "noop")
    /\ [][(ResumeGuard /\ lastCall' = "resume" /\ nCalls' = nCalls + 1) =>
            (progVars' = progVars /\ nArms' = nArms /\ lastResume'.outcome = "noop")]_vars

\* resume() was called after setAudioTrack() during a session: the audio
\* plays, timers are pending, isPlaying is still true.
C37_Witness ==
    /\ lastCall = "resume" /\ lastResume.outcome = "noop"
    /\ audioElement.exists /\ ~audioElement.paused /\ ~isAnalyzed
    /\ isPlaying /\ timers # {} /\ nArms = 1 /\ pcResume = "idle"

=============================================================================
